---- MODULE Spec2Model ----
(***************************************************************************)
(* Pipeline orchestration core of the data-loader front end: the per-file  *)
(* record store (files), the stage gate (canProceed / nextStep /           *)
(* prevStep), the three batch operations (upload, analysis, ingestion)     *)
(* with their reconciliation steps, and the retry of failed ingestions.    *)
(*                                                                         *)
(* One action is one event handler run to its first await, or one          *)
(* continuation of a handler after the awaited response arrived.  A        *)
(* request that was sent and not yet answered is an element of inflight.   *)
(* Only the component of the current step is mounted, so the component     *)
(* local flags (isUploading, isProcessing, isIngesting, selectedFolder)    *)
(* start afresh at every navigation, and a handler that resumes after its  *)
(* component was unmounted can still write the state the page owns         *)
(* (files, uploadStatus, the two progress values) but not the flags.       *)
(***************************************************************************)
EXTENDS Integers, Sequences, FiniteSets, TLC

VARIABLES currentStep, files, uploadStatus, processingProgress,
          ingestionProgress, selectedFolder, isUploading, isProcessing,
          isIngesting, inflight, sent, retreats, disk, server

vars == <<currentStep, files, uploadStatus, processingProgress,
          ingestionProgress, selectedFolder, isUploading, isProcessing,
          isIngesting, inflight, sent, retreats, disk, server>>

(***************************************************************************)
(* Bounds of the model.                                                    *)
(***************************************************************************)
\* most requests sent in one run
MaxRequests == 4
\* most uses of the Previous button in one run
MaxRetreats == 1
\* most requests awaiting their response at one time
MaxInFlight == 2
\* most ticks of the simulated progress timer that are told apart
MaxTicks == 1
\* the clock, read by Date.now() and new Date(), shows a value of 0 .. MaxNow
MaxNow == 0

(***************************************************************************)
(* JavaScript values.                                                      *)
(***************************************************************************)
Undefined == "undefined"
Null == "null"
\* v is falsy where the code writes  v || w  or  v ? a : b
Falsy(v) == v \in {Undefined, Null, ""}

\* steps[].id of the last entry of the steps array
LastStepId == 6
\* the limit nextStep compares with
NextStepLimit == 7
\* the value the progress timer stops at
ProgressTimerCap == 95

(***************************************************************************)
(* What the user can select: the folder d with three files, the folder e   *)
(* that holds a file a and, in a sub-folder, another file a, and the two   *)
(* files a and b picked with the file input.  disk is the set of file      *)
(* lists a selection event of this run can carry; the empty list is the    *)
(* event of a cancelled dialog.                                            *)
(***************************************************************************)
FolderD ==
    << [name |-> "a", webkitRelativePath |-> "d/a"],
       [name |-> "b", webkitRelativePath |-> "d/b"],
       [name |-> "c", webkitRelativePath |-> "d/c"] >>
FolderE ==
    << [name |-> "a", webkitRelativePath |-> "e/a"],
       [name |-> "a", webkitRelativePath |-> "e/s/a"] >>
PickedFiles ==
    << [name |-> "a", webkitRelativePath |-> ""],
       [name |-> "b", webkitRelativePath |-> ""] >>

Names == {"a", "b", "c"}

Min(S) == CHOOSE x \in S : \A y \in S : x <= y

\* uploadedFiles[0].webkitRelativePath.split("/")[0]
FirstSegment(path) ==
    CASE path \in {"d/a", "d/b", "d/c"} -> "d"
      [] path \in {"e/a", "e/s/a"} -> "e"
      [] OTHER -> path

\* all sequences over S of length 0 .. n
RECURSIVE SeqsUpTo(_, _)
SeqsUpTo(S, n) ==
    IF n = 0 THEN {<<>>}
    ELSE LET shorter == SeqsUpTo(S, n - 1)
         IN  shorter \cup {Append(s, x) : s \in {q \in shorter : Len(q) = n - 1}, x \in S}

RemoveAt(s, k) == [i \in 1..(Len(s) - 1) |-> IF i < k THEN s[i] ELSE s[i + 1]]

(***************************************************************************)
(* FileData and the store.                                                 *)
(***************************************************************************)
UndefinedDetails == [kind |-> "undefined", entries |-> <<>>]
NullDetails == [kind |-> "null", entries |-> <<>>]

\* NewFileData, were the id made of the clock's value alone
NewFileDataByClock(file, index, now) ==
    [ id |-> <<now, 0>>,
      name |-> file.name,
      path |-> IF file.webkitRelativePath # "" THEN file.webkitRelativePath
               ELSE file.name,
      selected |-> TRUE,
      processed |-> FALSE,
      uploaded |-> FALSE,
      qualityMetrics |-> Undefined,
      classification |-> Undefined,
      ingestionStatus |-> Undefined,
      ingestionDetails |-> UndefinedDetails,
      error |-> Undefined ]

\* one element of filesWithSelection in handleFileUpload; index is the
\* 0-based position in the list, now the value of Date.now()
NewFileData(file, index, now) ==
    [ id |-> <<now, index>>,
      name |-> file.name,
      path |-> IF file.webkitRelativePath # "" THEN file.webkitRelativePath
               ELSE file.name,
      selected |-> TRUE,
      processed |-> FALSE,
      uploaded |-> FALSE,
      qualityMetrics |-> Undefined,
      classification |-> Undefined,
      ingestionStatus |-> Undefined,
      ingestionDetails |-> UndefinedDetails,
      error |-> Undefined ]

\* files.filter(f => f.selected)
SelectedOf(fs) == SelectSeq(fs, LAMBDA f : f.selected)
\* selectedFilesToUpload, were it every selected record
selectedFilesIncludingUploaded == SelectSeq(files, LAMBDA f : f.selected)

\* files.filter(f => f.selected && !f.uploaded)
selectedFilesToUpload == SelectSeq(files, LAMBDA f : f.selected /\ ~f.uploaded)
\* files.filter(f => f.selected).every(f => f.uploaded)
allSelectedFilesUploaded == \A i \in DOMAIN files : files[i].selected => files[i].uploaded
\* files.filter(f => f.selected && f.processed)
selectedAndProcessed == SelectSeq(files, LAMBDA f : f.selected /\ f.processed)
\* selectedFiles.filter(f => f.ingestionStatus === "failed").length
failedCount == Len(SelectSeq(selectedAndProcessed, LAMBDA f : f.ingestionStatus = "failed"))

(***************************************************************************)
(* Stage gate and navigation.                                              *)
(***************************************************************************)
\* canProceed, were step 3 to ask for one processed record only
canProceedOnFirstResult ==
    CASE currentStep = 1 -> \E i \in DOMAIN files : files[i].selected
      [] currentStep = 2 -> uploadStatus = "success"
      [] currentStep = 3 -> \E i \in DOMAIN files : files[i].selected /\ files[i].processed
      [] currentStep = 4 -> \E i \in DOMAIN files : files[i].selected
      [] currentStep = 5 -> TRUE
      [] currentStep = 6 -> \E i \in DOMAIN files :
                                files[i].selected /\ files[i].ingestionStatus = "success"
      [] OTHER -> TRUE

\* canProceed, were step 4 to be left whatever the selection
canProceedUncurated ==
    CASE currentStep = 1 -> \E i \in DOMAIN files : files[i].selected
      [] currentStep = 2 -> uploadStatus = "success"
      [] currentStep = 3 -> \A i \in DOMAIN files : files[i].selected => files[i].processed
      [] currentStep = 4 -> TRUE
      [] currentStep = 5 -> TRUE
      [] currentStep = 6 -> \E i \in DOMAIN files :
                                files[i].selected /\ files[i].ingestionStatus = "success"
      [] OTHER -> TRUE

canProceed ==
    CASE currentStep = 1 -> \E i \in DOMAIN files : files[i].selected
      [] currentStep = 2 -> uploadStatus = "success"
      [] currentStep = 3 -> \A i \in DOMAIN files : files[i].selected => files[i].processed
      [] currentStep = 4 -> \E i \in DOMAIN files : files[i].selected
      [] currentStep = 5 -> TRUE
      [] currentStep = 6 -> \E i \in DOMAIN files :
                                files[i].selected /\ files[i].ingestionStatus = "success"
      [] OTHER -> TRUE

\* every request in flight loses the component that sent it
Orphaned(reqs) == [k \in DOMAIN reqs |-> [reqs[k] EXCEPT !.live = FALSE]]

\* Navigate, were the effect on currentStep to reset the uploaded flags on
\* arrival at step 1 as well
NavigateResettingUploads(step) ==
    /\ currentStep' = step
    /\ uploadStatus' = IF step = 1 THEN "idle" ELSE uploadStatus
    /\ files' = IF step = 1
                THEN [i \in DOMAIN files |-> [files[i] EXCEPT !.uploaded = FALSE]]
                ELSE files
    /\ selectedFolder' = ""
    /\ isUploading' = FALSE
    /\ isProcessing' = FALSE
    /\ isIngesting' = FALSE
    /\ inflight' = Orphaned(inflight)
    /\ UNCHANGED <<processingProgress, ingestionProgress, sent, disk, server>>

\* what a change of currentStep to step brings with it: the component of the
\* old step is unmounted, the one of the new step is mounted with its
\* initial local state, and the effect on currentStep runs
Navigate(step) ==
    /\ currentStep' = step
    /\ uploadStatus' = IF step = 1 THEN "idle" ELSE uploadStatus
    /\ selectedFolder' = ""
    /\ isUploading' = FALSE
    /\ isProcessing' = FALSE
    /\ isIngesting' = FALSE
    /\ inflight' = Orphaned(inflight)
    /\ UNCHANGED <<files, processingProgress, ingestionProgress, sent, disk, server>>

nextStep ==
    /\ currentStep < NextStepLimit
    /\ canProceed
    /\ Navigate(currentStep + 1)
    /\ UNCHANGED retreats

prevStep ==
    /\ currentStep # 1
    /\ currentStep > 1
    /\ Navigate(currentStep - 1)
    /\ retreats < MaxRetreats
    /\ retreats' = retreats + 1

(***************************************************************************)
(* Step 1: folder selection.                                               *)
(***************************************************************************)
\* handleFileUploadEvent, were the new records added to the store
handleFileUploadAdding(uploadedFiles, now) ==
    IF Len(uploadedFiles) = 0
    THEN UNCHANGED <<files, selectedFolder>>
    ELSE /\ files' = files \o [i \in DOMAIN uploadedFiles |->
                                  NewFileData(uploadedFiles[i], i - 1, now)]
         /\ selectedFolder' =
              IF uploadedFiles[1].webkitRelativePath # ""
              THEN FirstSegment(uploadedFiles[1].webkitRelativePath)
              ELSE "Selected Files"

\* handleFileUpload for a change event whose file list is uploadedFiles,
\* run when the clock shows now
handleFileUploadEvent(uploadedFiles, now) ==
    IF Len(uploadedFiles) = 0
    THEN UNCHANGED <<files, selectedFolder>>
    ELSE /\ files' = [i \in DOMAIN uploadedFiles |->
                         NewFileData(uploadedFiles[i], i - 1, now)]
         /\ selectedFolder' =
              IF uploadedFiles[1].webkitRelativePath # ""
              THEN FirstSegment(uploadedFiles[1].webkitRelativePath)
              ELSE "Selected Files"

\* a change event of the file input or of the folder input of step 1
handleFileUpload ==
    /\ currentStep = 1
    /\ \E uploadedFiles \in disk, now \in 0..MaxNow :
         handleFileUploadEvent(uploadedFiles, now)
    /\ UNCHANGED <<currentStep, uploadStatus, processingProgress, ingestionProgress,
                   isUploading, isProcessing, isIngesting, inflight, sent, retreats, disk, server>>

\* toggleFileSelection, were the record found by its name
toggleFileSelectionByName ==
    /\ currentStep = 1
    /\ selectedFolder # ""
    /\ \E k \in DOMAIN files :
         LET fileName == files[k].name
         IN  files' = [i \in DOMAIN files |->
                          IF files[i].name = fileName
                          THEN [files[i] EXCEPT !.selected = ~files[i].selected]
                          ELSE files[i]]
    /\ UNCHANGED <<currentStep, uploadStatus, processingProgress, ingestionProgress,
                   selectedFolder, isUploading, isProcessing, isIngesting, inflight, sent, retreats, disk, server>>

toggleFileSelection ==
    /\ currentStep = 1
    /\ selectedFolder # ""
    /\ \E k \in DOMAIN files :
         LET fileId == files[k].id
         IN  files' = [i \in DOMAIN files |->
                          IF files[i].id = fileId
                          THEN [files[i] EXCEPT !.selected = ~files[i].selected]
                          ELSE files[i]]
    /\ UNCHANGED <<currentStep, uploadStatus, processingProgress, ingestionProgress,
                   selectedFolder, isUploading, isProcessing, isIngesting, inflight, sent, retreats, disk, server>>

toggleAllFiles ==
    /\ currentStep = 1
    /\ selectedFolder # ""
    /\ \E checked \in BOOLEAN :
         files' = [i \in DOMAIN files |-> [files[i] EXCEPT !.selected = checked]]
    /\ UNCHANGED <<currentStep, uploadStatus, processingProgress, ingestionProgress,
                   selectedFolder, isUploading, isProcessing, isIngesting, inflight, sent, retreats, disk, server>>

clearAll ==
    /\ currentStep = 1
    /\ selectedFolder # ""
    /\ files' = <<>>
    /\ selectedFolder' = ""
    /\ UNCHANGED <<currentStep, uploadStatus, processingProgress, ingestionProgress,
                   isUploading, isProcessing, isIngesting, inflight, sent, retreats, disk, server>>

(***************************************************************************)
(* Requests in flight.                                                     *)
(***************************************************************************)
\* what a request carries of one FileData of its batch
Submitted(f) == [id |-> f.id, name |-> f.name]

\* a request sent by the mounted component: its kind ("upload", "process",
\* "ingest"), the files it carries, whether the retry button sent it
Request(kind, batch, retry) ==
    [ kind |-> kind,
      batch |-> [i \in DOMAIN batch |-> Submitted(batch[i])],
      retry |-> retry,
      live |-> TRUE ]

\* the fetch call: one more request awaits its response
Send(req) ==
    /\ Len(inflight) < MaxInFlight
    /\ sent < MaxRequests
    /\ inflight' = Append(inflight, req)
    /\ sent' = sent + 1
    /\ UNCHANGED <<retreats, disk, server>>

\* the replies of a server that keeps to the contract: the outcomes of some
\* of the submitted files, one each, in the order they were submitted
RECURSIVE ContractReplies(_, _)
ContractReplies(names, outcomes) ==
    IF names = <<>> THEN {<<>>}
    ELSE LET rest == ContractReplies(Tail(names), outcomes)
         IN  rest \cup {<<o>> \o r : o \in outcomes[Head(names)], r \in rest}

\* the names of the files the user has
NamesOnDisk == UNION {{l[i].name : i \in DOMAIN l} : l \in disk}

\* the lists a 2xx response to req can carry, outcomes[n] being what one
\* entry can say of the file name n: any list of at most as many entries
\* as files were submitted that names files of the user, or a reply within
\* the contract
Replies(req, outcomes) ==
    IF server = "any"
    THEN SeqsUpTo(UNION {outcomes[n] : n \in NamesOnDisk}, Len(req.batch))
    ELSE ContractReplies([i \in DOMAIN req.batch |-> req.batch[i].name], outcomes)

Outstanding(kind) == {k \in DOMAIN inflight : inflight[k].kind = kind}

\* newFiles.findIndex(f => f.name === fileName), and the position find
\* stops at: 0 where findIndex returns -1, else the 1-based position of the
\* first element of that name
FindIndex(newFiles, fileName) ==
    IF \E j \in DOMAIN newFiles : newFiles[j].name = fileName
    THEN Min({j \in DOMAIN newFiles : newFiles[j].name = fileName})
    ELSE 0

Max(S) == CHOOSE x \in S : \A y \in S : y <= x

(***************************************************************************)
(* Step 2: upload.                                                         *)
(***************************************************************************)
\* the path the upload endpoint assigns to a file name
ServerPath(name) == "uploads/" \o name

\* result.files of a 2xx upload response: a list of {name, path}, at most
\* one entry per submitted file, naming any file name
UploadResults(req) ==
    Replies(req, [n \in Names |-> {[name |-> n, path |-> ServerPath(n)]}])

\* ReconcileUpload, were it to write the flag of every record: true for a
\* record the response names, false for the others
ReconcileUploadExact(prevFiles, uploadedFiles) ==
    [i \in DOMAIN prevFiles |->
        LET f == prevFiles[i]
            found == FindIndex(uploadedFiles, f.name)
        IN  IF found # 0
            THEN [f EXCEPT !.uploaded = TRUE, !.path = uploadedFiles[found].path]
            ELSE [f EXCEPT !.uploaded = FALSE]]

\* the setFiles updater of handleUpload
ReconcileUpload(prevFiles, uploadedFiles) ==
    [i \in DOMAIN prevFiles |->
        LET f == prevFiles[i]
            found == FindIndex(uploadedFiles, f.name)
        IN  IF found # 0
            THEN [f EXCEPT !.uploaded = TRUE, !.path = uploadedFiles[found].path]
            ELSE f]

\* a call of handleUpload of the mounted FileUpload, to its await
handleUploadCall ==
    /\ currentStep = 2
    /\ IF Len(selectedFilesToUpload) = 0
       THEN /\ uploadStatus' = "success"
            /\ UNCHANGED <<isUploading, inflight, sent, retreats, disk, server>>
       ELSE /\ isUploading' = TRUE
            /\ uploadStatus' = "uploading"
            /\ Send(Request("upload", selectedFilesToUpload, FALSE))
    /\ UNCHANGED <<currentStep, files, processingProgress, ingestionProgress,
                   selectedFolder, isProcessing, isIngesting>>

\* click on Start Upload, which is disabled while isUploading ||
\* allSelectedFilesUploaded
handleUpload ==
    /\ ~(isUploading \/ allSelectedFilesUploaded)
    /\ handleUploadCall

\* the finally block of handleUpload, and the request is answered
uploadSettled(k) ==
    /\ isUploading' = IF inflight[k].live THEN FALSE ELSE isUploading
    /\ inflight' = RemoveAt(inflight, k)
    /\ UNCHANGED <<currentStep, processingProgress, ingestionProgress, selectedFolder,
                   isProcessing, isIngesting, sent, retreats, disk, server>>

\* handleUpload after its await, on a 2xx response with result.files
uploadOk(k, uploadedFiles) ==
    /\ k \in Outstanding("upload")
    /\ files' = ReconcileUpload(files, uploadedFiles)
    /\ uploadStatus' = "success"
    /\ uploadSettled(k)

\* uploadFailed, were the catch to report the upload as done
uploadFailedSilently(k) ==
    /\ k \in Outstanding("upload")
    /\ uploadStatus' = "success"
    /\ UNCHANGED files
    /\ uploadSettled(k)

\* handleUpload after its await, in its catch: the response is not 2xx, its
\* body does not parse, or fetch rejected
uploadFailed(k) ==
    /\ k \in Outstanding("upload")
    /\ uploadStatus' = "failed"
    /\ UNCHANGED files
    /\ uploadSettled(k)

uploadResponse ==
    \E k \in Outstanding("upload") :
      \/ \E uploadedFiles \in UploadResults(inflight[k]) : uploadOk(k, uploadedFiles)
      \/ uploadFailed(k)

(***************************************************************************)
(* Step 3: analysis.                                                       *)
(***************************************************************************)
\* what the analysis endpoint finds in the file of a name
ClassificationOf(name) == IF name = "c" THEN "Unstructured" ELSE "Structured"
MetricsOf(name) == "metrics:" \o name

\* the body of a 2xx analysis response: a list of ApiResult, at most one
\* entry per submitted file, naming any file name
AnalysisResults(req) ==
    Replies(req, [n \in Names |-> {[fileName |-> n, qualityMetrics |-> MetricsOf(n),
                                    classification |-> ClassificationOf(n)]}])

\* ResetSelected, were it to reset the processed flag alone
ResetSelectedFlagOnly(prevFiles) ==
    [i \in DOMAIN prevFiles |->
        IF prevFiles[i].selected
        THEN [prevFiles[i] EXCEPT !.processed = FALSE]
        ELSE prevFiles[i]]

\* the first setFiles updater of startProcessing
ResetSelected(prevFiles) ==
    [i \in DOMAIN prevFiles |->
        IF prevFiles[i].selected
        THEN [prevFiles[i] EXCEPT !.processed = FALSE,
                                  !.qualityMetrics = Undefined,
                                  !.classification = Undefined]
        ELSE prevFiles[i]]

\* ReconcileAnalysis, were a selected record without an entry to be marked
\* processed as well
ReconcileAnalysisAll(prevFiles, results) ==
    [i \in DOMAIN prevFiles |->
        LET file == prevFiles[i]
            hits == {j \in DOMAIN results : results[j].fileName = file.name}
        IN  IF file.selected /\ hits # {}
            THEN [file EXCEPT !.processed = TRUE,
                              !.qualityMetrics = results[Max(hits)].qualityMetrics,
                              !.classification = results[Max(hits)].classification]
            ELSE IF file.selected
            THEN [file EXCEPT !.processed = TRUE]
            ELSE file]

\* ReconcileAnalysis, were it to write to every record an entry names,
\* selected or not
ReconcileAnalysisUnselected(prevFiles, results) ==
    [i \in DOMAIN prevFiles |->
        LET file == prevFiles[i]
            hits == {j \in DOMAIN results : results[j].fileName = file.name}
        IN  IF hits # {}
            THEN [file EXCEPT !.processed = TRUE,
                              !.qualityMetrics = results[Max(hits)].qualityMetrics,
                              !.classification = results[Max(hits)].classification]
            ELSE file]

\* the second setFiles updater of startProcessing; resultMap.get is the
\* last entry of a name
ReconcileAnalysis(prevFiles, results) ==
    [i \in DOMAIN prevFiles |->
        LET file == prevFiles[i]
            hits == {j \in DOMAIN results : results[j].fileName = file.name}
        IN  IF file.selected /\ hits # {}
            THEN [file EXCEPT !.processed = TRUE,
                              !.qualityMetrics = results[Max(hits)].qualityMetrics,
                              !.classification = results[Max(hits)].classification]
            ELSE file]

\* click on Start Processing: startProcessing to its await
startProcessing ==
    /\ currentStep = 3
    /\ ~(isProcessing \/ Len(SelectedOf(files)) = 0)
    /\ isProcessing' = TRUE
    /\ processingProgress' = 0
    /\ files' = ResetSelected(files)
    /\ Send(Request("process", SelectedOf(files), FALSE))
    /\ UNCHANGED <<currentStep, uploadStatus, ingestionProgress, selectedFolder,
                   isUploading, isIngesting>>

\* one tick of progressInterval, which runs until its request is answered
progressTick ==
    /\ Outstanding("process") # {}
    /\ processingProgress < ProgressTimerCap
    /\ processingProgress < MaxTicks
    /\ processingProgress' = processingProgress + 1
    /\ UNCHANGED <<currentStep, files, uploadStatus, ingestionProgress, selectedFolder,
                   isUploading, isProcessing, isIngesting, inflight, sent, retreats, disk, server>>

\* the finally block of startProcessing, and the request is answered
processSettled(k) ==
    /\ isProcessing' = IF inflight[k].live THEN FALSE ELSE isProcessing
    /\ inflight' = RemoveAt(inflight, k)
    /\ UNCHANGED <<currentStep, uploadStatus, ingestionProgress, selectedFolder,
                   isUploading, isIngesting, sent, retreats, disk, server>>

\* startProcessing after its await, on a 2xx response with results
processOk(k, results) ==
    /\ k \in Outstanding("process")
    /\ files' = ReconcileAnalysis(files, results)
    /\ processingProgress' = 100
    /\ processSettled(k)

\* startProcessing after its await, in its catch
processFailed(k) ==
    /\ k \in Outstanding("process")
    /\ processingProgress' = 0
    /\ UNCHANGED files
    /\ processSettled(k)

processResponse ==
    \E k \in Outstanding("process") :
      \/ \E results \in AnalysisResults(inflight[k]) : processOk(k, results)
      \/ processFailed(k)

resetProcessing ==
    /\ currentStep = 3
    /\ ~isProcessing
    /\ files' = [i \in DOMAIN files |->
                    [files[i] EXCEPT !.processed = FALSE,
                                     !.qualityMetrics = Undefined,
                                     !.classification = Undefined]]
    /\ processingProgress' = 0
    /\ UNCHANGED <<currentStep, uploadStatus, ingestionProgress, selectedFolder,
                   isUploading, isProcessing, isIngesting, inflight, sent, retreats, disk, server>>

(***************************************************************************)
(* Step 4: curation.                                                       *)
(***************************************************************************)
\* the user's change of one record's selected flag
curationToggle ==
    /\ currentStep = 4
    /\ \E k \in DOMAIN files :
         files' = [files EXCEPT ![k] = [@ EXCEPT !.selected = ~@]]
    /\ UNCHANGED <<currentStep, uploadStatus, processingProgress, ingestionProgress,
                   selectedFolder, isUploading, isProcessing, isIngesting, inflight, sent, retreats, disk, server>>

(***************************************************************************)
(* Step 5: ingestion.                                                      *)
(***************************************************************************)
\* new Date(now).toISOString(), now being the clock's value
toISOString(now) ==
    CASE now = 0 -> "t0"
      [] now = 1 -> "t1"
      [] OTHER   -> "t2"

\* the detail entry d, as the entries of the object it is
DetailEntry == << <<"type", "structured">>, <<"tables", "tables-of-d">> >>

\* ingestionDetails of a success entry for a file name: d itself, the
\* array [d], or the mapping {k: d}; inside an array or a mapping d is the
\* value "d"
PayloadOf(name) ==
    CASE name = "a" -> [kind |-> "object", entries |-> DetailEntry]
      [] name = "b" -> [kind |-> "array", entries |-> << <<"0", "d">> >>]
      [] OTHER      -> [kind |-> "object", entries |-> << <<"k", "d">> >>]
NullPayload == [kind |-> "null", entries |-> <<>>]

\* what one entry of an ingestion response may say of a file name
IngestEntries(n) ==
    { [fileName |-> n, status |-> "success",
       ingestionDetails |-> PayloadOf(n), error |-> Null],
      [fileName |-> n, status |-> "failed",
       ingestionDetails |-> NullPayload, error |-> "ingest error"],
      [fileName |-> n, status |-> "failed",
       ingestionDetails |-> NullPayload, error |-> Null] }

\* resultData.results of a 2xx ingestion response
IngestResults(req) == Replies(req, [n \in Names |-> IngestEntries(n)])

\* obj with key set to value: in place when obj has key, else at the end
ObjectSet(obj, key, value) ==
    IF \E j \in DOMAIN obj : obj[j][1] = key
    THEN [j \in DOMAIN obj |-> IF obj[j][1] = key THEN <<key, value>> ELSE obj[j]]
    ELSE Append(obj, <<key, value>>)

\* result.ingestionDetails ? {...result.ingestionDetails, startTime, endTime} : null
StoredDetails(payload, now) ==
    IF payload.kind = "null"
    THEN NullDetails
    ELSE [kind |-> "object",
          entries |-> ObjectSet(ObjectSet(payload.entries, "startTime",
                                                    toISOString(now)),
                                "endTime", toISOString(now))]

\* ReconcileIngestion, were an entry of status failed to mark every record
RECURSIVE ReconcileFailingAll(_, _, _)
ReconcileFailingAll(newFiles, results, now) ==
    IF results = <<>>
    THEN newFiles
    ELSE LET result == Head(results)
             updated ==
               [i \in DOMAIN newFiles |->
                  IF newFiles[i].name = result.fileName \/ result.status = "failed"
                  THEN [newFiles[i] EXCEPT
                          !.ingestionStatus = result.status,
                          !.ingestionDetails = StoredDetails(result.ingestionDetails, now),
                          !.error = IF Falsy(result.error) THEN Undefined
                                    ELSE result.error]
                  ELSE newFiles[i]]
         IN  ReconcileFailingAll(updated, Tail(results), now)

\* ReconcileIngestion, were the entry at a position of the list to be
\* written to the record at that position of the store
ReconcileByPosition(newFiles, results, now) ==
    [i \in DOMAIN newFiles |->
        IF i \in DOMAIN results
        THEN [newFiles[i] EXCEPT
                !.ingestionStatus = results[i].status,
                !.ingestionDetails = StoredDetails(results[i].ingestionDetails, now),
                !.error = IF Falsy(results[i].error) THEN Undefined
                          ELSE results[i].error]
        ELSE newFiles[i]]

\* the setFiles updater of handleIngestion on a 2xx response, run when the
\* clock shows now: results.forEach
RECURSIVE ReconcileIngestion(_, _, _)
ReconcileIngestion(newFiles, results, now) ==
    IF results = <<>>
    THEN newFiles
    ELSE LET result == Head(results)
             fileIndex == FindIndex(newFiles, result.fileName)
             updated ==
               IF fileIndex # 0
               THEN [newFiles EXCEPT ![fileIndex] =
                       [@ EXCEPT !.ingestionStatus = result.status,
                                 !.ingestionDetails = StoredDetails(result.ingestionDetails, now),
                                 !.error = IF Falsy(result.error) THEN Undefined
                                           ELSE result.error]]
               ELSE newFiles
         IN  ReconcileIngestion(updated, Tail(results), now)

\* FailPending, were the catch to mark the first pending record only
FailFirstPending(prevFiles) ==
    LET pending == {i \in DOMAIN prevFiles : prevFiles[i].ingestionStatus = "pending"}
    IN  [i \in DOMAIN prevFiles |->
            IF i \in pending /\ i = Min(pending)
            THEN [prevFiles[i] EXCEPT !.ingestionStatus = "failed",
                                      !.error = "API connection failed"]
            ELSE prevFiles[i]]

\* FailPending, were the catch to pass over the deselected records
FailPendingSelected(prevFiles) ==
    [i \in DOMAIN prevFiles |->
        IF prevFiles[i].ingestionStatus = "pending" /\ prevFiles[i].selected
        THEN [prevFiles[i] EXCEPT !.ingestionStatus = "failed",
                                  !.error = "API connection failed"]
        ELSE prevFiles[i]]

\* the setFiles updater of handleIngestion's catch
FailPending(prevFiles) ==
    [i \in DOMAIN prevFiles |->
        IF prevFiles[i].ingestionStatus = "pending"
        THEN [prevFiles[i] EXCEPT !.ingestionStatus = "failed",
                                  !.error = "API connection failed"]
        ELSE prevFiles[i]]

\* MarkPending, were the store to become the marked records of the batch
MarkPendingBatchOnly(prevFiles, filesToProcess) ==
    [p \in DOMAIN filesToProcess |->
        [filesToProcess[p] EXCEPT !.ingestionStatus = "pending",
                                  !.ingestionDetails = NullDetails,
                                  !.error = Undefined]]

\* MarkPending, were a record matched by its name
MarkPendingByName(prevFiles, filesToProcess) ==
    [i \in DOMAIN prevFiles |->
        IF \E p \in DOMAIN filesToProcess : filesToProcess[p].name = prevFiles[i].name
        THEN [prevFiles[i] EXCEPT !.ingestionStatus = "pending",
                                  !.ingestionDetails = NullDetails,
                                  !.error = Undefined]
        ELSE prevFiles[i]]

\* the first setFiles updater of handleIngestion
MarkPending(prevFiles, filesToProcess) ==
    [i \in DOMAIN prevFiles |->
        IF \E p \in DOMAIN filesToProcess : filesToProcess[p].id = prevFiles[i].id
        THEN [prevFiles[i] EXCEPT !.ingestionStatus = "pending",
                                  !.ingestionDetails = NullDetails,
                                  !.error = Undefined]
        ELSE prevFiles[i]]

\* handleIngestion, were it without the return on an empty filesToProcess
handleIngestionUnguarded(filesToProcess, retry) ==
    /\ isIngesting' = TRUE
    /\ files' = MarkPending(files, filesToProcess)
    /\ Send(Request("ingest", filesToProcess, retry))

\* handleIngestion(filesToProcess) to its await
handleIngestion(filesToProcess, retry) ==
    IF Len(filesToProcess) = 0
    THEN UNCHANGED <<files, isIngesting, inflight, sent, retreats, disk, server>>
    ELSE /\ isIngesting' = TRUE
         /\ files' = MarkPending(files, filesToProcess)
         /\ Send(Request("ingest", filesToProcess, retry))

\* a call of startIngestion of the mounted IngestionProcess
startIngestionCall ==
    /\ currentStep = 5
    /\ ingestionProgress' = 0
    /\ handleIngestion(SelectSeq(files, LAMBDA f : f.selected /\ f.processed), FALSE)
    /\ UNCHANGED <<currentStep, uploadStatus, processingProgress, selectedFolder,
                   isUploading, isProcessing>>

\* click on Start Ingestion, which is disabled while isIngesting ||
\* selectedFiles.length === 0
startIngestion ==
    /\ ~(isIngesting \/ Len(selectedAndProcessed) = 0)
    /\ startIngestionCall

\* a call of retryFailedIngestion of the mounted IngestionProcess
retryFailedIngestionCall ==
    /\ currentStep = 5
    /\ handleIngestion(SelectSeq(files, LAMBDA f : f.ingestionStatus = "failed"), TRUE)
    /\ UNCHANGED <<currentStep, uploadStatus, processingProgress, ingestionProgress,
                   selectedFolder, isUploading, isProcessing>>

\* click on Retry Failed, which is shown while failedCount > 0 && !isIngesting
retryFailedIngestion ==
    /\ failedCount > 0 /\ ~isIngesting
    /\ retryFailedIngestionCall

\* ingestSettled, were handleIngestion without its finally block
ingestSettledKeepingFlag(k) ==
    /\ isIngesting' = isIngesting
    /\ ingestionProgress' = ingestionProgress
    /\ inflight' = RemoveAt(inflight, k)
    /\ UNCHANGED <<currentStep, uploadStatus, processingProgress, selectedFolder,
                   isUploading, isProcessing, sent, retreats, disk, server>>

\* the finally block of handleIngestion, and the request is answered
ingestSettled(k) ==
    /\ isIngesting' = IF inflight[k].live THEN FALSE ELSE isIngesting
    /\ ingestionProgress' = 100
    /\ inflight' = RemoveAt(inflight, k)
    /\ UNCHANGED <<currentStep, uploadStatus, processingProgress, selectedFolder,
                   isUploading, isProcessing, sent, retreats, disk, server>>

\* handleIngestion after its await, on a 2xx response with resultData.results
ingestOk(k, results) ==
    /\ k \in Outstanding("ingest")
    /\ \E now \in 0..MaxNow : files' = ReconcileIngestion(files, results, now)
    /\ ingestSettled(k)

\* handleIngestion after its await, in its catch
ingestFailed(k) ==
    /\ k \in Outstanding("ingest")
    /\ files' = FailPending(files)
    /\ ingestSettled(k)

ingestResponse ==
    \E k \in Outstanding("ingest") :
      \/ \E results \in IngestResults(inflight[k]) : ingestOk(k, results)
      \/ ingestFailed(k)

(***************************************************************************)
(* Step 6: summary.                                                        *)
(***************************************************************************)
IndexKeys == {"0", "1", "2"}

\* Object.values: the values of the index keys first, then the others in
\* the order they were set
ObjectValues(obj) ==
    LET ordered == SelectSeq(obj, LAMBDA e : e[1] \in IndexKeys)
                   \o SelectSeq(obj, LAMBDA e : e[1] \notin IndexKeys)
    IN  [j \in DOMAIN ordered |-> ordered[j][2]]

getIngestionDetailsAsArray(details) ==
    IF details.kind \in {"undefined", "null"} THEN <<>>
    ELSE IF details.kind = "array" THEN [j \in DOMAIN details.entries |-> details.entries[j][2]]
    ELSE ObjectValues(details.entries)

\* SummaryView: selectedFiles.filter(f => f.ingestionStatus === "success")
successfulIngestions == SelectSeq(selectedAndProcessed, LAMBDA f : f.ingestionStatus = "success")
\* SummaryView: selectedFiles.filter(f => f.ingestionStatus === "failed")
failedIngestions == SelectSeq(selectedAndProcessed, LAMBDA f : f.ingestionStatus = "failed")
\* the badge SummaryView shows beside a listed file
StatusBadge(f) == IF f.ingestionStatus = "success" THEN "Success" ELSE "Failed"

Start ==
    /\ currentStep = 1
    /\ files = <<>>
    /\ uploadStatus = "idle"
    /\ processingProgress = 0
    /\ ingestionProgress = 0
    /\ selectedFolder = ""
    /\ isUploading = FALSE
    /\ isProcessing = FALSE
    /\ isIngesting = FALSE
    /\ inflight = <<>>
    /\ sent = 0
    /\ retreats = 0

\* any reply of the server; the user has the folder e and the files a, b
Init ==
    /\ Start
    /\ disk = {<<>>, FolderE, PickedFiles}
    /\ server = "any"

\* the server keeps to the contract; the user has the folder d
InitContract ==
    /\ Start
    /\ disk = {<<>>, FolderD}
    /\ server = "contract"

Next ==
    \/ nextStep
    \/ prevStep
    \/ handleFileUpload
    \/ toggleFileSelection
    \/ toggleAllFiles
    \/ clearAll
    \/ handleUpload
    \/ uploadResponse
    \/ startProcessing
    \/ progressTick
    \/ processResponse
    \/ resetProcessing
    \/ curationToggle
    \/ startIngestion
    \/ retryFailedIngestion
    \/ ingestResponse

Spec == Init /\ [][Next]_vars

SpecContract == InitContract /\ [][Next]_vars

\* Spec, with every request that awaits its response answered in the end,
\* by a response or by a transport error
SpecFair ==
    /\ Init /\ [][Next]_vars
    /\ WF_vars(uploadResponse)
    /\ WF_vars(processResponse)
    /\ WF_vars(ingestResponse)

(***************************************************************************)
(* What the properties below speak of.                                     *)
(***************************************************************************)
\* the Next button of the page is enabled
AdvancePermitted == currentStep < NextStepLimit /\ canProceed

\* this step answers the ingestion request at position k
IngestAnswered(k) ==
    /\ k \in Outstanding("ingest")
    /\ inflight' = RemoveAt(inflight, k)

\* this step answers the analysis request at position k
ProcessAnswered(k) ==
    /\ k \in Outstanding("process")
    /\ inflight' = RemoveAt(inflight, k)

\* this step answers the upload request at position k
UploadAnswered(k) ==
    /\ k \in Outstanding("upload")
    /\ inflight' = RemoveAt(inflight, k)

\* this step sends a request
RequestStarted == Len(inflight') = Len(inflight) + 1
Started == inflight'[Len(inflight')]

\* the record f is one of the files submitted with req
InBatch(f, req) == \E p \in DOMAIN req.batch : req.batch[p].id = f.id

IngestionFields(f) == <<f.ingestionStatus, f.ingestionDetails, f.error>>

\* the ids of the records of a store, in the order of the store
IdsOf(fs) == [i \in DOMAIN fs |-> fs[i].id]

\* this step replaces the store by the records of a new selection
StoreReplaced == handleFileUpload \/ clearAll

(***************************************************************************)
(* C1.  At step 2 the advance is permitted if and only if every selected   *)
(* record is uploaded: refused while a selected record is not uploaded,    *)
(* permitted whenever all selected records are uploaded, zero selected     *)
(* records included.                                                       *)
(***************************************************************************)
C1_UploadGateIffAllUploaded ==
    currentStep = 2 => (AdvancePermitted <=> allSelectedFilesUploaded)

(***************************************************************************)
(* C2.  A step from the ingestion step 5 to the summary step 6 is taken    *)
(* only in a state where at least one selected record has ingestionStatus  *)
(* success.                                                                *)
(***************************************************************************)
C2_SummaryNeedsIngestedRecord ==
    [][(currentStep = 5 /\ currentStep' = 6)
         => \E i \in DOMAIN files :
               files[i].selected /\ files[i].ingestionStatus = "success"]_vars

(***************************************************************************)
(* C3.  Retry isolation: with three records A success, B failed and C      *)
(* failed, a retry (which submits B and C) answered by a response that     *)
(* holds only B = success ends with A success, B success and C failed, C   *)
(* still carrying an error message.                                        *)
(***************************************************************************)
C3_RetryIsolation ==
    [][\A k \in DOMAIN inflight : \A a, b, c \in DOMAIN files :
         ( /\ Len(files) = 3 /\ {a, b, c} = DOMAIN files
           /\ k \in Outstanding("ingest")
           /\ inflight[k].retry
           /\ {inflight[k].batch[p].id : p \in DOMAIN inflight[k].batch}
                = {files[b].id, files[c].id}
           /\ files[a].ingestionStatus = "success"
           /\ ingestOk(k, << [fileName |-> files[b].name, status |-> "success",
                              ingestionDetails |-> PayloadOf(files[b].name),
                              error |-> Null] >>) )
         => /\ files'[a].ingestionStatus = "success"
            /\ files'[b].ingestionStatus = "success"
            /\ files'[c].ingestionStatus = "failed"
            /\ ~Falsy(files'[c].error)]_vars

(***************************************************************************)
(* C4.  In every reachable state each of the upload, analysis and          *)
(* ingestion steps has at most one request awaiting its response, also     *)
(* after the user has left the step and come back.                         *)
(***************************************************************************)
C4_OneRequestPerStage ==
    \A kind \in {"upload", "process", "ingest"} : Cardinality(Outstanding(kind)) <= 1

(***************************************************************************)
(* C5.  ingestionStatus, ingestionDetails and error of a record change     *)
(* only in a step that starts or answers an ingestion request whose        *)
(* submitted files include that record, whatever the response holds and    *)
(* also when two records share a name.                                     *)
(***************************************************************************)
C5_OnlySubmittedRecordsChange ==
    [][~StoreReplaced =>
         \A i \in DOMAIN files :
            IngestionFields(files'[i]) # IngestionFields(files[i])
              => \/ \E k \in DOMAIN inflight :
                       IngestAnswered(k) /\ InBatch(files[i], inflight[k])
                 \/ /\ RequestStarted
                    /\ Started.kind = "ingest"
                    /\ InBatch(files[i], Started)]_vars

(***************************************************************************)
(* C6.  A retry never submits and never re-marks a record whose            *)
(* ingestionStatus is success: the retry request holds no such record,     *)
(* and when its response is reconciled every record that was success is    *)
(* still success with the same ingestion details.                          *)
(***************************************************************************)
C6_RetrySparesSuccess ==
    [][/\ (RequestStarted /\ Started.kind = "ingest" /\ Started.retry)
            => \A i \in DOMAIN files :
                  InBatch(files[i], Started) => files[i].ingestionStatus # "success"
       /\ \A k \in DOMAIN inflight :
            (IngestAnswered(k) /\ inflight[k].retry)
              => \A i \in DOMAIN files :
                    files[i].ingestionStatus = "success"
                      => /\ files'[i].ingestionStatus = "success"
                         /\ files'[i].ingestionDetails = files[i].ingestionDetails]_vars

(***************************************************************************)
(* C7.  In every reachable state every record whose ingestionStatus is     *)
(* failed carries a non-empty error message.                               *)
(***************************************************************************)
C7_FailedCarriesError ==
    \A i \in DOMAIN files :
       files[i].ingestionStatus = "failed" => ~Falsy(files[i].error)

(***************************************************************************)
(* C8.  Shape normalization: the ingestion details of a success entry,     *)
(* delivered as the detail entry d itself, as [d] or as {k: d}, are stored *)
(* by the reconciliation and normalized for the summary to the sequence    *)
(* whose one element is d.                                                 *)
(***************************************************************************)
C8_DetailsNormalizeToOneEntry ==
    \A i \in DOMAIN files :
       (files[i].ingestionStatus = "success" /\ files[i].ingestionDetails.kind = "object")
         => getIngestionDetailsAsArray(files[i].ingestionDetails) = <<"d">>

C10_PerFileFailure ==
    \A k \in Outstanding("ingest") :
       \A results \in IngestResults(inflight[k]), now \in 0..MaxNow :
          LET newFiles == ReconcileIngestion(files, results, now)
          IN  /\ \A i \in DOMAIN files :
                    ( /\ newFiles[i].ingestionStatus = "failed"
                      /\ IngestionFields(newFiles[i]) # IngestionFields(files[i]) )
                      => \E j \in DOMAIN results :
                            /\ results[j].fileName = files[i].name
                            /\ results[j].status = "failed"
                            /\ newFiles[i].error = IF Falsy(results[j].error)
                                                   THEN Undefined
                                                   ELSE results[j].error
              /\ \A j \in DOMAIN results : \A i \in DOMAIN files :
                    ( /\ files[i].name = results[j].fileName
                      /\ \A h \in DOMAIN files : files[h].name = files[i].name => h = i
                      /\ \A h \in DOMAIN results :
                            results[h].fileName = results[j].fileName => h = j )
                      => newFiles[i].ingestionStatus = results[j].status

\* one response has left a record failed with its entry's error and a
\* sibling of the same batch a success
C10_Witness ==
    /\ ingestionProgress = 100
    /\ \E i, j \in DOMAIN files :
          /\ files[i].ingestionStatus = "failed" /\ files[i].error = "ingest error"
          /\ files[j].ingestionStatus = "success"
          /\ files[i].name # files[j].name

(***************************************************************************)
(* C11.  currentStep stays within 1 .. 6, the ids of the steps array,      *)
(* after any sequence of Next and Previous.                                *)
(***************************************************************************)
C11_StepWithinSteps == currentStep \in 1..LastStepId

(***************************************************************************)
(* C12.  In every reachable state a record with processed = false has      *)
(* qualityMetrics and classification undefined: the start of processing,   *)
(* the reset and the reconciliation of an analysis response change         *)
(* processed and the analysis fields in one store update.                  *)
(***************************************************************************)
C12_UnprocessedHasNoMetrics ==
    \A i \in DOMAIN files :
       ~files[i].processed
         => /\ files[i].qualityMetrics = Undefined
            /\ files[i].classification = Undefined

\* processing has been started again after a record was deselected: the
\* deselected record keeps its results, the selected one is reset
C12_Witness ==
    /\ isProcessing
    /\ \E i, j \in DOMAIN files :
          /\ files[i].selected /\ ~files[i].processed
          /\ ~files[j].selected /\ files[j].processed
          /\ files[j].classification # Undefined

(***************************************************************************)
(* C13.  Monotonic upload flag: a record that has uploaded = true keeps it *)
(* in every step that does not replace the store by a new selection or     *)
(* clear it: no reconciliation, toggle or navigation takes it back.        *)
(***************************************************************************)
C13_UploadedStays ==
    [][~StoreReplaced
         => /\ DOMAIN files' = DOMAIN files
            /\ \A i \in DOMAIN files : files[i].uploaded => files'[i].uploaded]_vars

\* an uploaded record has since been analysed and ingested, and the user
\* has gone back a step
C13_Witness ==
    /\ retreats > 0
    /\ \E i \in DOMAIN files :
          /\ files[i].uploaded /\ files[i].processed
          /\ files[i].ingestionStatus \in {"success", "failed"}

(***************************************************************************)
(* C14.  Every request, of upload, analysis, ingestion start or ingestion  *)
(* retry, submits only records that have selected = true when the request  *)
(* is built.                                                               *)
(***************************************************************************)
C14_OnlySelectedSubmitted ==
    [][RequestStarted
         => \A i \in DOMAIN files : InBatch(files[i], Started) => files[i].selected]_vars

(***************************************************************************)
(* C15.  Idempotent reconciliation: whatever result list answers a request *)
(* of upload, analysis or ingestion, the reconciliation applied to its own *)
(* result with the same list, which for ingestion happens when the clock   *)
(* has moved on, gives that result again.                                  *)
(***************************************************************************)
C15_ReconcileIdempotent ==
    /\ \A k \in Outstanding("upload") : \A uploadedFiles \in UploadResults(inflight[k]) :
          ReconcileUpload(ReconcileUpload(files, uploadedFiles), uploadedFiles)
            = ReconcileUpload(files, uploadedFiles)
    /\ \A k \in Outstanding("process") : \A results \in AnalysisResults(inflight[k]) :
          ReconcileAnalysis(ReconcileAnalysis(files, results), results)
            = ReconcileAnalysis(files, results)
    /\ \A k \in Outstanding("ingest") :
          \A results \in IngestResults(inflight[k]), now \in 0..MaxNow :
             ReconcileIngestion(ReconcileIngestion(files, results, now), results, now + 1)
               = ReconcileIngestion(files, results, now)

(***************************************************************************)
(* C16.  Selective matching: whatever result list answers a request of     *)
(* upload, analysis or ingestion, the reconciliation returns a record      *)
(* whose name is the name of no entry of the list as it was, every field   *)
(* the same.                                                               *)
(***************************************************************************)
C16_UnnamedRecordUntouched ==
    /\ \A k \in Outstanding("upload") : \A uploadedFiles \in UploadResults(inflight[k]) :
          \A i \in DOMAIN files :
             (\A j \in DOMAIN uploadedFiles : uploadedFiles[j].name # files[i].name)
               => ReconcileUpload(files, uploadedFiles)[i] = files[i]
    /\ \A k \in Outstanding("process") : \A results \in AnalysisResults(inflight[k]) :
          \A i \in DOMAIN files :
             (\A j \in DOMAIN results : results[j].fileName # files[i].name)
               => ReconcileAnalysis(files, results)[i] = files[i]
    /\ \A k \in Outstanding("ingest") :
          \A results \in IngestResults(inflight[k]), now \in 0..MaxNow :
             \A i \in DOMAIN files :
                (\A j \in DOMAIN results : results[j].fileName # files[i].name)
                  => ReconcileIngestion(files, results, now)[i] = files[i]

\* an upload response has named one submitted record and not the other,
\* which is as it was
C16_Witness ==
    /\ currentStep = 2 /\ retreats = 0 /\ uploadStatus = "success"
    /\ \E i, j \in DOMAIN files :
          /\ files[i].uploaded
          /\ files[j].selected /\ ~files[j].uploaded

(***************************************************************************)
(* C17.  At step 3 the advance is permitted if and only if every selected  *)
(* record has processed = true, and a step from 3 to 4 is taken only then. *)
(***************************************************************************)
C17_ProcessingGate ==
    [][/\ currentStep' = 3
            => (AdvancePermitted'
                  <=> \A i \in DOMAIN files' : files'[i].selected => files'[i].processed)
       /\ (currentStep = 3 /\ currentStep' = 4)
            => \A i \in DOMAIN files : files[i].selected => files[i].processed]_vars

\* at step 3 an analysis response has left a selected record without
\* results beside a processed one: the advance is refused
C17_Witness ==
    /\ currentStep = 3 /\ ~isProcessing /\ ~AdvancePermitted
    /\ \E i, j \in DOMAIN files :
          /\ files[i].selected /\ files[i].processed
          /\ files[j].selected /\ ~files[j].processed

(***************************************************************************)
(* C18.  At step 1 and at step 4 the advance is permitted if and only if   *)
(* at least one record has selected = true, and the step is left forwards  *)
(* only then.                                                              *)
(***************************************************************************)
C18_SelectionGate ==
    [][/\ currentStep' \in {1, 4}
            => (AdvancePermitted' <=> \E i \in DOMAIN files' : files'[i].selected)
       /\ (currentStep \in {1, 4} /\ currentStep' = currentStep + 1)
            => \E i \in DOMAIN files : files[i].selected]_vars

\* at step 4 the user has deselected every record: the advance is refused
C18_Witness ==
    /\ currentStep = 4 /\ ~AdvancePermitted
    /\ files # <<>>
    /\ \A i \in DOMAIN files : ~files[i].selected /\ files[i].processed

(***************************************************************************)
(* C19.  A step that changes currentStep, forwards or backwards, leaves    *)
(* every record and both progress values as they are, and changes          *)
(* uploadStatus only on arrival at step 1, to idle; Previous is available  *)
(* at every step above 1 whatever the records hold.                        *)
(***************************************************************************)
C19_NavigationKeepsRecords ==
    [][/\ currentStep' # currentStep
            => /\ files' = files
               /\ processingProgress' = processingProgress
               /\ ingestionProgress' = ingestionProgress
               /\ uploadStatus' = IF currentStep' = 1 THEN "idle" ELSE uploadStatus
       /\ (currentStep > 1 /\ retreats < MaxRetreats) => ENABLED prevStep]_vars

\* the user is back at step 1 after an upload: the record is still
\* uploaded, the upload status is idle again
C19_Witness ==
    /\ currentStep = 1 /\ retreats > 0
    /\ uploadStatus = "idle"
    /\ \E i \in DOMAIN files : files[i].uploaded

(***************************************************************************)
(* C20.  In every reachable state a call of handleUpload or of             *)
(* startIngestion whose subset is empty sends no request and leaves every  *)
(* record as it is, and a call of retryFailedIngestion while no record is  *)
(* failed changes nothing at all.                                          *)
(***************************************************************************)
C20_EmptySubsetIsNoOp ==
    /\ Len(selectedFilesToUpload) = 0
         => ~ENABLED (handleUploadCall
                        /\ (files' # files \/ inflight' # inflight \/ sent' # sent))
    /\ Len(selectedAndProcessed) = 0
         => ~ENABLED (startIngestionCall
                        /\ (files' # files \/ inflight' # inflight \/ sent' # sent))
    /\ (\A i \in DOMAIN files : files[i].ingestionStatus # "failed")
         => ~ENABLED (retryFailedIngestionCall /\ vars' # vars)

\* at step 5 an ingestion has ended with no record failed: a call of
\* retryFailedIngestion finds an empty subset and returns
C20_Witness ==
    /\ currentStep = 5 /\ ~isIngesting /\ inflight = <<>>
    /\ \E i \in DOMAIN files : files[i].ingestionStatus = "success"
    /\ \A i \in DOMAIN files : files[i].ingestionStatus # "failed"
    /\ ENABLED retryFailedIngestionCall

(***************************************************************************)
(* C21.  End to end: three records are uploaded and analysed as two        *)
(* Structured and one Unstructured, the Unstructured one is deselected,    *)
(* the two others were ingested with one success and one failure, and the  *)
(* retry that submits the failed one is answered with its success.  The    *)
(* run then has exactly two records at success and none failed, the        *)
(* deselected record has no ingestion status, and the advance to the       *)
(* summary is permitted.                                                   *)
(***************************************************************************)
C21_EndToEnd ==
    [][\A k \in DOMAIN inflight : \A u, s, r \in DOMAIN files :
         ( /\ Len(files) = 3 /\ {u, s, r} = DOMAIN files
           /\ retreats = 0 /\ currentStep = 5
           /\ \A i \in DOMAIN files : files[i].uploaded /\ files[i].processed
           /\ files[u].classification = "Unstructured"
           /\ files[s].classification = "Structured"
           /\ files[r].classification = "Structured"
           /\ ~files[u].selected /\ files[s].selected /\ files[r].selected
           /\ files[u].ingestionStatus = Undefined
           /\ files[s].ingestionStatus = "success"
           /\ k \in Outstanding("ingest")
           /\ inflight[k].retry
           /\ {inflight[k].batch[p].id : p \in DOMAIN inflight[k].batch} = {files[r].id}
           /\ ingestOk(k, << [fileName |-> files[r].name, status |-> "success",
                              ingestionDetails |-> PayloadOf(files[r].name),
                              error |-> Null] >>) )
         => /\ {i \in DOMAIN files' : files'[i].ingestionStatus = "success"} = {s, r}
            /\ \A i \in DOMAIN files' : files'[i].ingestionStatus # "failed"
            /\ IngestionFields(files'[u]) = IngestionFields(files[u])
            /\ AdvancePermitted']_vars

\* the run of the scenario has arrived at the summary: four requests were
\* sent, no step was taken back, two records are ingested, none is failed
\* and the deselected Unstructured record was never ingested
C21_Witness ==
    /\ currentStep = 6 /\ retreats = 0 /\ sent = 4 /\ inflight = <<>>
    /\ Len(files) = 3
    /\ Cardinality({i \in DOMAIN files : files[i].ingestionStatus = "success"}) = 2
    /\ \A i \in DOMAIN files : files[i].ingestionStatus # "failed"
    /\ \E u \in DOMAIN files :
          /\ ~files[u].selected
          /\ files[u].classification = "Unstructured"
          /\ files[u].ingestionStatus = Undefined

(***************************************************************************)
(* C22.  In every reachable state the records of the store have pairwise   *)
(* distinct ids, also when records share a name; and whatever the clock    *)
(* shows when each element of a selection is built, two elements of one    *)
(* selection get different ids.                                            *)
(***************************************************************************)
C22_DistinctIds ==
    /\ \A i, j \in DOMAIN files : i # j => files[i].id # files[j].id
    /\ \A uploadedFiles \in disk : \A i, j \in DOMAIN uploadedFiles :
          \A now1, now2 \in 0..MaxNow :
             i # j => NewFileData(uploadedFiles[i], i - 1, now1).id
                        # NewFileData(uploadedFiles[j], j - 1, now2).id

\* the two files named a of the folder e are in the store, one of them
\* deselected, and an upload was answered
C22_Witness ==
    /\ Len(files) = 2
    /\ files[1].name = files[2].name
    /\ files[1].selected # files[2].selected
    /\ \E i \in DOMAIN files : files[i].uploaded

(***************************************************************************)
(* C23.  The sequence of the record ids of the store, which records exist  *)
(* and in which order, changes only in a step that sets the store to a new *)
(* selection or clears it: upload, analysis, ingestion, retry, the reset   *)
(* of processing, the selection toggles and navigation keep it.            *)
(***************************************************************************)
C23_IdSequenceKept ==
    [][~StoreReplaced => IdsOf(files') = IdsOf(files)]_vars

\* a retry was answered while a record of the store is deselected, after a
\* step back: the store still has both records
C23_Witness ==
    /\ retreats > 0 /\ sent = MaxRequests /\ inflight = <<>>
    /\ Len(files) = 2
    /\ \E i, j \in DOMAIN files :
          /\ ~files[i].selected
          /\ files[j].selected /\ files[j].ingestionStatus = "success"

(***************************************************************************)
(* C24.  A record's processed flag becomes true, and a record changes in a *)
(* step that answers an analysis request, only when that step reconciles   *)
(* a 2xx analysis response, the record is selected as the response is      *)
(* applied and an entry of the response has its name: no other step sets   *)
(* processed to true, and a record that is deselected or that the response *)
(* does not name is left as it is.                                         *)
(***************************************************************************)
C24_ProcessedOnlyByAnalysis ==
    [][~StoreReplaced =>
         \A i \in DOMAIN files :
            ( \/ ~files[i].processed /\ files'[i].processed
              \/ \E k \in DOMAIN inflight : ProcessAnswered(k) /\ files'[i] # files[i] )
              => \E k \in DOMAIN inflight :
                    /\ ProcessAnswered(k)
                    /\ files[i].selected
                    /\ \E results \in AnalysisResults(inflight[k]) : processOk(k, results)
                    /\ \A results \in AnalysisResults(inflight[k]) :
                          processOk(k, results)
                            => \E j \in DOMAIN results :
                                  results[j].fileName = files[i].name]_vars

\* of the two records named a the selected one was processed by a response
\* that names a, the deselected one was not
C24_Witness ==
    /\ processingProgress = 100
    /\ \E i, j \in DOMAIN files :
          /\ files[i].name = files[j].name
          /\ files[i].selected /\ files[i].processed
          /\ ~files[j].selected /\ ~files[j].processed

(***************************************************************************)
(* C25.  When an ingestion request fails as a whole, a record changes only *)
(* by being marked failed with the message "API connection failed", and    *)
(* every record that was not submitted with that request keeps its         *)
(* ingestionStatus and its error, a record left pending by an earlier      *)
(* request included.                                                       *)
(***************************************************************************)
C25_FailureMarksBatchOnly ==
    [][\A k \in DOMAIN inflight :
         ingestFailed(k)
           => \A i \in DOMAIN files :
                 /\ files'[i] # files[i]
                      => /\ files'[i].ingestionStatus = "failed"
                         /\ files'[i].error = "API connection failed"
                 /\ ~InBatch(files[i], inflight[k])
                      => /\ files'[i].ingestionStatus = files[i].ingestionStatus
                         /\ files'[i].error = files[i].error]_vars

(***************************************************************************)
(* C26.  The step that starts an ingestion request, from Start Ingestion   *)
(* or from the retry, sets ingestionStatus to pending and clears           *)
(* ingestionDetails and error of exactly the records whose id is the id of *)
(* a submitted file, changes no other field of them, and leaves every      *)
(* other record as it is.                                                  *)
(***************************************************************************)
C26_StartMarksBatchPending ==
    [][(RequestStarted /\ Started.kind = "ingest")
         => /\ DOMAIN files' = DOMAIN files
            /\ \A i \in DOMAIN files :
                  IF InBatch(files[i], Started)
                  THEN files'[i] = [files[i] EXCEPT !.ingestionStatus = "pending",
                                                    !.ingestionDetails = NullDetails,
                                                    !.error = Undefined]
                  ELSE files'[i] = files[i]]_vars

\* a retry awaits its response: the record it submitted is pending, a
\* record it did not submit is still success with its details
C26_Witness ==
    \E k \in Outstanding("ingest") : \E i, j \in DOMAIN files :
       /\ inflight[k].retry /\ inflight[k].live
       /\ InBatch(files[i], inflight[k]) /\ files[i].ingestionStatus = "pending"
       /\ ~InBatch(files[j], inflight[k]) /\ files[j].ingestionStatus = "success"
       /\ files[j].ingestionDetails.kind = "object"

C28_UploadSubmitsPendingUploads ==
    [][/\ (RequestStarted /\ Started.kind = "upload")
            => \A i \in DOMAIN files :
                  InBatch(files[i], Started) <=> (files[i].selected /\ ~files[i].uploaded)
       /\ allSelectedFilesUploaded => ~ENABLED handleUpload]_vars

\* a second upload awaits its response: it carries the record the first
\* response did not name and not the one that is uploaded
C28_Witness ==
    \E k \in Outstanding("upload") : \E i, j \in DOMAIN files :
       /\ inflight[k].live /\ isUploading
       /\ files[i].selected /\ files[i].uploaded /\ ~InBatch(files[i], inflight[k])
       /\ files[j].selected /\ ~files[j].uploaded /\ InBatch(files[j], inflight[k])

(***************************************************************************)
(* C29.  A step that answers an upload request changes only records that   *)
(* were submitted with it: a record that was not, because it was           *)
(* deselected or already uploaded, keeps its uploaded flag and its path    *)
(* whatever the response holds, also when it shares its name with a        *)
(* submitted record.                                                       *)
(***************************************************************************)
C29_UploadChangesBatchOnly ==
    [][\A k \in DOMAIN inflight :
         UploadAnswered(k)
           => \A i \in DOMAIN files :
                 ~InBatch(files[i], inflight[k])
                   => /\ files'[i].uploaded = files[i].uploaded
                      /\ files'[i].path = files[i].path]_vars

(***************************************************************************)
(* C30.  A step that answers an upload request by a failure (a response    *)
(* that is not 2xx, or a network error) changes no record and sets the     *)
(* upload status to failed; at step 2 the advance is refused while the     *)
(* upload status is not success, and the upload status becomes success     *)
(* only in a step that answers an upload request with a 2xx response.      *)
(***************************************************************************)
C30_UploadFailureBlocksAdvance ==
    [][/\ \A k \in DOMAIN inflight :
            uploadFailed(k) => (files' = files /\ uploadStatus' = "failed")
       /\ (currentStep = 2 /\ uploadStatus # "success") => ~AdvancePermitted
       /\ (uploadStatus # "success" /\ uploadStatus' = "success")
            => \E k \in DOMAIN inflight :
                  /\ UploadAnswered(k)
                  /\ \E uploadedFiles \in UploadResults(inflight[k]) :
                        uploadOk(k, uploadedFiles)]_vars

\* at step 2 the one upload request has failed: the records are not
\* uploaded, the status is failed and the advance is refused
C30_Witness ==
    /\ currentStep = 2 /\ uploadStatus = "failed" /\ ~isUploading
    /\ inflight = <<>> /\ sent = 1
    /\ files # <<>>
    /\ \A i \in DOMAIN files : files[i].selected /\ ~files[i].uploaded
    /\ ~AdvancePermitted

(***************************************************************************)
(* C31.  A step that answers an analysis request by a failure leaves every *)
(* selected record with processed = false and with qualityMetrics and      *)
(* classification undefined, leaves every unselected record as it was,     *)
(* sets the progress to 0, and, while a record is selected, leaves the     *)
(* advance from step 3 refused.                                            *)
(***************************************************************************)
C31_AnalysisFailureLeavesReset ==
    [][\A k \in DOMAIN inflight :
         processFailed(k)
           => /\ \A i \in DOMAIN files :
                    IF files[i].selected
                    THEN /\ ~files'[i].processed
                         /\ files'[i].qualityMetrics = Undefined
                         /\ files'[i].classification = Undefined
                    ELSE files'[i] = files[i]
              /\ processingProgress' = 0
              /\ (currentStep' = 3 /\ \E i \in DOMAIN files' : files'[i].selected)
                   => ~AdvancePermitted']_vars

(***************************************************************************)
(* C32.  In every reachable state in which the current step is the         *)
(* selection step 1 the upload status is idle, also after an upload        *)
(* response has arrived while the user was back at step 1; so the advance  *)
(* from step 2 is not yet permitted when step 2 is entered from there.     *)
(***************************************************************************)
C32_IdleAtSelection == currentStep = 1 => uploadStatus = "idle"

(***************************************************************************)
(* C33.  In every reachable state a record that has processed = true or an *)
(* ingestionStatus that is not undefined has uploaded = true: results of   *)
(* analysis and ingestion are recorded only for uploaded records.          *)
(***************************************************************************)
C33_ResultsOnlyForUploaded ==
    \A i \in DOMAIN files :
       (files[i].processed \/ files[i].ingestionStatus # Undefined)
         => files[i].uploaded

(***************************************************************************)
(* C34.  In every reachable state a record whose ingestionStatus is        *)
(* pending, success or failed has processed = true, so that while it is    *)
(* selected it is one of the selected and processed records the ingestion  *)
(* counters and the summary go through.                                    *)
(***************************************************************************)
C34_IngestedIsProcessed ==
    \A i \in DOMAIN files :
       files[i].ingestionStatus # Undefined => files[i].processed

(***************************************************************************)
(* C35.  In every reachable state in which the summary step 6 is shown,    *)
(* the number of successful ingestions plus the number of failed           *)
(* ingestions is the number of the selected and processed records the      *)
(* summary lists, and every listed record shown with the badge Failed is   *)
(* one of the failed ingestions.                                           *)
(***************************************************************************)
C35_CountsPartitionList ==
    currentStep = 6
      => /\ Len(successfulIngestions) + Len(failedIngestions) = Len(selectedAndProcessed)
         /\ \A j \in DOMAIN selectedAndProcessed :
               StatusBadge(selectedAndProcessed[j]) = "Failed"
                 => selectedAndProcessed[j].ingestionStatus = "failed"

(***************************************************************************)
(* C36.  Where every request is answered in the end, a step's flag of a    *)
(* batch in progress (isUploading, isProcessing, isIngesting) that is set  *)
(* is cleared again: whatever the outcome of the request, the handler runs *)
(* to its end and the flag no longer disables the start trigger.           *)
(***************************************************************************)
C36_FlagsAreCleared ==
    /\ isUploading ~> ~isUploading
    /\ isProcessing ~> ~isProcessing
    /\ isIngesting ~> ~isIngesting

\* the one ingestion request has failed as a whole while its component was
\* mounted: the flag is cleared and Start Ingestion can be pressed again
C36_Witness ==
    /\ currentStep = 5 /\ retreats = 0 /\ inflight = <<>>
    /\ ~isIngesting /\ ingestionProgress = 100
    /\ \E i \in DOMAIN files : files[i].error = "API connection failed"
    /\ ENABLED startIngestion

(***************************************************************************)
(* C37.  A selection toggle changes the selected field only: a toggle of   *)
(* one record flips selected of exactly one record, the one with the id    *)
(* given, select all / deselect all gives selected of every record the     *)
(* one value given, and in both cases every other field of every record,   *)
(* uploaded, processed, the analysis and the ingestion results among       *)
(* them, is as before.                                                     *)
(***************************************************************************)
C37_ToggleChangesSelectedOnly ==
    [][(toggleFileSelection \/ toggleAllFiles)
         => /\ DOMAIN files' = DOMAIN files
            /\ \A i \in DOMAIN files :
                  files'[i] = [files[i] EXCEPT !.selected = files'[i].selected]
            /\ toggleFileSelection
                 => Cardinality({i \in DOMAIN files :
                                    files'[i].selected # files[i].selected}) = 1
            /\ toggleAllFiles
                 => \A i, j \in DOMAIN files : files'[i].selected = files'[j].selected]_vars

\* back at step 1 after an upload, one of the two records named a was
\* deselected: it is still uploaded, and the other is still selected
C37_Witness ==
    /\ currentStep = 1 /\ retreats > 0
    /\ \E i, j \in DOMAIN files :
          /\ files[i].name = files[j].name
          /\ ~files[i].selected /\ files[i].uploaded
          /\ files[j].selected /\ files[j].uploaded

(***************************************************************************)
(* C38.  A selection event with a non-empty file list sets the store to    *)
(* one new record for each file of the list, in its order, each with       *)
(* selected = true, processed = false, not uploaded and without analysis   *)
(* or ingestion results, so that no record of the store before is left; a  *)
(* selection event with an empty list leaves the store as it is.           *)
(***************************************************************************)
C38_SelectionReplacesStore ==
    [][\A uploadedFiles \in disk, now \in 0..MaxNow :
         (handleFileUpload /\ handleFileUploadEvent(uploadedFiles, now))
           => IF Len(uploadedFiles) = 0
              THEN files' = files
              ELSE /\ Len(files') = Len(uploadedFiles)
                   /\ \A i \in DOMAIN files' :
                         /\ files'[i].name = uploadedFiles[i].name
                         /\ files'[i].selected /\ ~files'[i].processed
                         /\ ~files'[i].uploaded
                         /\ files'[i].qualityMetrics = Undefined
                         /\ files'[i].classification = Undefined
                         /\ IngestionFields(files'[i])
                              = <<Undefined, UndefinedDetails, Undefined>>]_vars

\* back at step 1 after a request was sent, the store holds the records of
\* a selection as they are made: selected, not uploaded, without results
C38_Witness ==
    /\ currentStep = 1 /\ retreats > 0 /\ sent > 0 /\ inflight = <<>>
    /\ selectedFolder = "Selected Files"
    /\ Len(files) = 2
    /\ \A i \in DOMAIN files :
          /\ files[i].selected /\ ~files[i].uploaded /\ ~files[i].processed
          /\ files[i].ingestionStatus = Undefined

====
